---- MODULE Spec2Model ----
(***************************************************************************)
(* Model of aws_saml_auth/amazon.py: class Amazon.                         *)
(*                                                                         *)
(* The broker part follows Amazon.__init__, the token property with its    *)
(* derived accessors, the two print_* formatters and assume_role; the      *)
(* resolver part follows resolve_aws_aliases and its worker threads.       *)
(* The token endpoint (STS) and the alias listing (IAM) are external: each *)
(* of their answers is a nondeterministic choice.                          *)
(***************************************************************************)
EXTENDS Integers, Sequences, FiniteSets, TLC

VARIABLES
    config,     \* the config object handed to __init__ (never assigned afterwards)
    environ,    \* the process environment as far as client construction depends on it
    token,      \* self.__token: None or Some(response)
    active,     \* the threads that use this broker instance
    pc,         \* per thread: position in the code
    ctx,        \* per thread: the operation in progress and the accessors it still reads
    frame,      \* per thread: the assume_role activation (stage and sts_call_vars["DurationSeconds"])
    calls,      \* per thread: the endpoint calls of the current assume_role invocation
    result,     \* per thread: what the last assume_role invocation or operation gave its caller
    obs,        \* per thread: the last value an accessor returned
    nextCred,   \* identifier of the next credential the endpoint will issue
    issuances,  \* number of assume_role invocations started by the token property
    stores,     \* number of assignments to self.__token made by the token property
    opsDone,    \* number of operations started on the broker
    roles,      \* resolve_aws_aliases: the role ARNs of roles.items(), in iteration order
    workers,    \* resolve_aws_aliases: the threads list; per worker its position and lookup result
    joined,     \* resolve_aws_aliases: number of threads the join loop has passed
    aws_id_alias, \* resolve_aws_aliases: the dictionary shared by the workers
    saml_xml,   \* self.saml_xml, the document handed to __init__ and to is_valid_saml_assertion
    now,        \* what datetime.utcnow() reads
    valid,      \* what is_valid_saml_assertion gave its caller
    extracted   \* what the roles property gave its caller

brokerVars == <<config, environ, token, active, pc, ctx, frame, calls, result, obs,
                nextCred, issuances, stores, opsDone>>

resolverVars == <<roles, workers, joined, aws_id_alias>>

docVars == <<saml_xml, now, valid, extracted>>

vars == <<brokerVars, resolverVars, docVars>>

-----------------------------------------------------------------------------
(* Bounds *)

MaxOps == 2       \* operations started on one broker instance
MaxCalls == 4     \* cap on the endpoint calls recorded for one invocation

-----------------------------------------------------------------------------
(* Values *)

None == <<>>
Some(v) == <<v>>

Threads == {1, 2}

\* The "Credentials" member of an AssumeRoleWithSAML response; k tells issued
\* credentials apart (0 is the one seeded from the token cache).
Credentials(k) ==
    [AccessKeyId     |-> <<"AK", k>>,
     SecretAccessKey |-> <<"SK", k>>,
     SessionToken    |-> <<"ST", k>>,
     Expiration      |-> <<"EXP", k>>]

Response(k) == [Credentials |-> Credentials(k)]

\* config.max_duration: "the maximum duration of 12 hours"
MaxDuration == 43200

\* An exception raised by the endpoint call.  cls is the Python class
\* (ClientError or another exception), code is response["Error"]["Code"],
\* hasMsg tells whether response["Error"]["Message"] is non-empty; the message
\* is described by whether it contains the phrase
\* "Member must have value less than or equal to " and by the decimal digits
\* that follow that phrase.
Err(cls, code, hasMsg, phrase, digits) ==
    [cls |-> cls, code |-> code, hasMsg |-> hasMsg, phrase |-> phrase, digits |-> digits]

NoError == Err("none", "", FALSE, FALSE, <<>>)

\* raised by sts_client when the profile cannot be resolved
ExpectedAmazonException == Err("ExpectedAmazonException", "", FALSE, FALSE, <<>>)

Errors ==
    { Err("ClientError", "ValidationError", TRUE, TRUE, <<2, 8, 8, 0, 0>>),
      Err("ClientError", "ValidationError", TRUE, TRUE, <<0, 0, 0>>),
      Err("ClientError", "ValidationError", TRUE, TRUE, <<9, 0>>),
      Err("ClientError", "ValidationError", TRUE, TRUE, <<1, 2, 9, 6, 0, 0>>),
      Err("ClientError", "ValidationError", TRUE, FALSE, <<>>),
      Err("ClientError", "ValidationError", FALSE, FALSE, <<>>),
      Err("ClientError", "AccessDenied", TRUE, TRUE, <<2, 8, 8, 0, 0>>),
      Err("EndpointConnectionError", "", FALSE, FALSE, <<>>) }

\* config.duration and the duration argument of a direct assume_role call
Durations == {None, Some(0), Some(900)}

\* os.environ.get("AWS_PROFILE"): unset, or the name of a profile
Profiles == {None, Some("work")}

\* config.token_cache: absent, an empty mapping, or a cached credential
TokenCaches == {None, Some(<<>>), Some(Credentials(0))}

Accessors == {"token", "access_key_id", "secret_access_key", "session_token", "expiration"}

\* the accessors an operation reads, in the order of the code
Reads(op) ==
    CASE op = "print_export_line" ->
            <<"access_key_id", "secret_access_key", "session_token">>
      [] op = "print_credential_process" ->
            <<"access_key_id", "secret_access_key", "session_token", "expiration">>
      [] OTHER -> <<op>>

AccessOps == Accessors \cup {"print_export_line", "print_credential_process"}

\* the value an accessor returns from the token it read
FieldOf(tok, acc) ==
    CASE acc = "access_key_id"     -> tok.Credentials.AccessKeyId
      [] acc = "secret_access_key" -> tok.Credentials.SecretAccessKey
      [] acc = "session_token"     -> tok.Credentials.SessionToken
      [] acc = "expiration"        -> tok.Credentials.Expiration
      [] OTHER                     -> tok

-----------------------------------------------------------------------------
(* Pure functions of assume_role *)

Min(a, b) == IF a <= b THEN a ELSE b

\* int(s) for a string of decimal digits
RECURSIVE ToInt(_)
ToInt(ds) ==
    IF ds = <<>> THEN 0
    ELSE 10 * ToInt(SubSeq(ds, 1, Len(ds) - 1)) + ds[Len(ds)]

\* re.search("Member must have value less than or equal to ([0-9]{3,5})", msg):
\* group 1, or None when there is no match
ReSearch(e) ==
    IF e.phrase /\ Len(e.digits) >= 3
    THEN Some(SubSeq(e.digits, 1, Min(5, Len(e.digits))))
    ELSE None

\* (variant: the error code is not tested)
NarrowedDurationAnyCode(e) ==
    IF e.cls = "ClientError" /\ e.hasMsg
    THEN LET m == ReSearch(e)
         IN  IF m # None /\ m[1] # <<>> THEN Some(ToInt(m[1])) ELSE None
    ELSE None

\* the except-clause of assume_role: Some(new_duration) when the error is the
\* narrowing signal, None when the error is re-raised (or was never caught)
NarrowedDuration(e) ==
    IF e.cls = "ClientError" /\ e.code = "ValidationError" /\ e.hasMsg
    THEN LET m == ReSearch(e)
         IN  IF m # None /\ m[1] # <<>> THEN Some(ToInt(m[1])) ELSE None
    ELSE None

\* Python truthiness of a duration ("elif duration:")
Truthy(d) == d # None /\ d[1] # 0

\* (variant: the recursive call negotiates again)
RetryAutoDurationAgain == TRUE

\* the auto_duration argument of the recursive call
RetryAutoDuration == FALSE

\* entry of assume_role up to its first endpoint call: which call comes next
\* ("probe": the one inside try, "final": the one at the end) and the
\* DurationSeconds it carries
EnterFrame(auto, duration) ==
    IF config.auto_duration /\ auto
    THEN [stage |-> "probe", req |-> Some(MaxDuration)]
    ELSE [stage |-> "final", req |-> IF Truthy(duration) THEN duration ELSE None]

NoFrame == [stage |-> "none", req |-> None]

\* (variant: the memoized token is never trusted)
TokenNeedsIssueAlways(tok) == TRUE

\* "if self.__token is None"
TokenNeedsIssue(tok) == tok = None

NoResult == [status |-> "none", res |-> None, err |-> NoError]
\* the arguments (duration, auto_duration) an operation passes to assume_role
Args(duration, auto) == [duration |-> duration, auto |-> auto]
NoArgs == Args(None, TRUE)

NoCtx == [op |-> "none", todo |-> <<>>, args |-> NoArgs]
NoObs == [acc |-> "none", tok |-> None]

-----------------------------------------------------------------------------
(* Construction *)

\* (variant: the cache is ignored)
SeedTokenIgnored(cache) == None

\* Amazon.__init__
SeedToken(cache) ==
    IF cache # None /\ cache[1] # <<>>
    THEN Some([Credentials |-> cache[1]])
    ELSE None

InitBroker(users) ==
    /\ config \in [token_cache : TokenCaches,
                   auto_duration : BOOLEAN,
                   duration : {None, Some(900)}]
    /\ environ \in [profile_found : BOOLEAN, AWS_PROFILE : Profiles]
    /\ token = SeedToken(config.token_cache)
    /\ active = users
    /\ pc = [t \in Threads |-> "idle"]
    /\ ctx = [t \in Threads |-> NoCtx]
    /\ frame = [t \in Threads |-> NoFrame]
    /\ calls = [t \in Threads |-> <<>>]
    /\ result = [t \in Threads |-> NoResult]
    /\ obs = [t \in Threads |-> NoObs]
    /\ nextCred = 1
    /\ issuances = 0
    /\ stores = 0
    /\ opsDone = 0
    /\ roles = <<>>
    /\ workers = <<>>
    /\ joined = 0
    /\ aws_id_alias = <<>>

-----------------------------------------------------------------------------
(* The token property and the accessors *)

\* the locals of a finished resolve_aws_aliases call no longer exist
ResolverLocalsGone ==
    /\ roles' = <<>>
    /\ workers' = <<>>
    /\ joined' = 0
    /\ aws_id_alias' = <<>>

\* a thread starts reading token, a derived accessor or a print_* formatter
StartAccess(t, op) ==
    /\ UNCHANGED docVars
    /\ pc[t] = "idle"
    /\ opsDone < MaxOps
    /\ opsDone' = opsDone + 1
    /\ pc' = [pc EXCEPT ![t] = "token"]
    /\ ctx' = [ctx EXCEPT ![t] = [op |-> op, todo |-> Reads(op),
                                 args |-> Args(config.duration, TRUE)]]
    /\ calls' = [calls EXCEPT ![t] = <<>>]
    /\ result' = [result EXCEPT ![t] = NoResult]
    /\ obs' = [obs EXCEPT ![t] = NoObs]
    /\ ResolverLocalsGone
    /\ UNCHANGED <<config, environ, token, active, frame, nextCred, issuances, stores>>

\* (variant: a placeholder is memoized before the credential is issued)
TokenGetEager(t) ==
    /\ UNCHANGED docVars
    /\ UNCHANGED resolverVars
    /\ pc[t] = "token"
    /\ IF TokenNeedsIssue(token)
       THEN /\ pc' = [pc EXCEPT ![t] = "assume"]
            /\ frame' = [frame EXCEPT ![t] = EnterFrame(ctx[t].args.auto, ctx[t].args.duration)]
            /\ calls' = [calls EXCEPT ![t] = <<>>]
            /\ issuances' = issuances + 1
            /\ token' = Some(Response(0))
       ELSE /\ pc' = [pc EXCEPT ![t] = "ret"]
            /\ UNCHANGED <<frame, calls, issuances, token>>
    /\ UNCHANGED <<config, environ, active, ctx, result, obs, nextCred, stores, opsDone>>

\* token, line 54: test and, when the token is missing, call assume_role
TokenGet(t) ==
    /\ UNCHANGED docVars
    /\ UNCHANGED resolverVars
    /\ pc[t] = "token"
    /\ IF TokenNeedsIssue(token)
       THEN /\ pc' = [pc EXCEPT ![t] = "assume"]
            /\ frame' = [frame EXCEPT ![t] = EnterFrame(ctx[t].args.auto, ctx[t].args.duration)]
            /\ calls' = [calls EXCEPT ![t] = <<>>]
            /\ issuances' = issuances + 1
       ELSE /\ pc' = [pc EXCEPT ![t] = "ret"]
            /\ UNCHANGED <<frame, calls, issuances>>
    /\ UNCHANGED <<config, environ, token, active, ctx, result, obs, nextCred, stores, opsDone>>

\* token, line 55: the assignment of assume_role's result
TokenStore(t) ==
    /\ UNCHANGED docVars
    /\ UNCHANGED resolverVars
    /\ pc[t] = "store"
    /\ token' = Some(result[t].res[1])
    /\ stores' = stores + 1
    /\ pc' = [pc EXCEPT ![t] = "ret"]
    /\ UNCHANGED <<config, environ, active, ctx, frame, calls, result, obs, nextCred,
                   issuances, opsDone>>

\* token, line 61, and the accessor's subscripting of what it returned
TokenReturn(t) ==
    /\ UNCHANGED docVars
    /\ UNCHANGED resolverVars
    /\ pc[t] = "ret"
    /\ token # None
    /\ obs' = [obs EXCEPT ![t] = [acc |-> Head(ctx[t].todo), tok |-> token]]
    /\ ctx' = [ctx EXCEPT ![t].todo = Tail(@)]
    /\ IF Len(ctx[t].todo) = 1
       THEN /\ pc' = [pc EXCEPT ![t] = "idle"]
            /\ result' = [result EXCEPT ![t] = [status |-> "ok", res |-> token, err |-> NoError]]
       ELSE /\ pc' = [pc EXCEPT ![t] = "token"]
            /\ UNCHANGED result
    /\ UNCHANGED <<config, environ, token, active, frame, calls, nextCred, issuances,
                   stores, opsDone>>

-----------------------------------------------------------------------------
(* assume_role *)

\* a direct call of assume_role by the broker's user
StartAssumeRole(t, duration, auto) ==
    /\ UNCHANGED docVars
    /\ pc[t] = "idle"
    /\ opsDone < MaxOps
    /\ opsDone' = opsDone + 1
    /\ pc' = [pc EXCEPT ![t] = "assume"]
    /\ ctx' = [ctx EXCEPT ![t] = [op |-> "assume_role", todo |-> <<>>,
                                 args |-> Args(duration, auto)]]
    /\ frame' = [frame EXCEPT ![t] = EnterFrame(auto, duration)]
    /\ calls' = [calls EXCEPT ![t] = <<>>]
    /\ result' = [result EXCEPT ![t] = NoResult]
    /\ obs' = [obs EXCEPT ![t] = NoObs]
    /\ ResolverLocalsGone
    /\ UNCHANGED <<config, environ, token, active, nextCred, issuances, stores>>

\* the sts_client property returns a client (boto3 resolves the profile of its
\* default session from the environment; ProfileNotFound otherwise)
StsClientBuilt == environ.profile_found

\* the environment one access to sts_client leaves behind: AWS_PROFILE is
\* deleted when set, and set again only if boto3.client returned
StsClientEnviron(env) ==
    LET profile == env.AWS_PROFILE
        cleared == IF profile # None THEN [env EXCEPT !.AWS_PROFILE = None] ELSE env
    IN  IF env.profile_found
        THEN IF profile # None THEN [cleared EXCEPT !.AWS_PROFILE = profile] ELSE cleared
        ELSE cleared

\* assume_role returns res to its caller, or an exception leaves it
Finish(t, status, res, err) ==
    /\ result' = [result EXCEPT ![t] = [status |-> status, res |-> res, err |-> err]]
    /\ frame' = [frame EXCEPT ![t] = NoFrame]
    /\ pc' = [pc EXCEPT ![t] =
                IF status = "ok" /\ ctx[t].op # "assume_role" THEN "store" ELSE "idle"]

Logged(t, ok, id, e) ==
    Append(calls[t], [req |-> frame[t].req, stage |-> frame[t].stage,
                      ok |-> ok, id |-> id, err |-> e])

\* sts_client.assume_role_with_saml(**sts_call_vars) answers with credentials
EndpointSucceeds(t) ==
    /\ UNCHANGED docVars
    /\ UNCHANGED resolverVars
    /\ pc[t] = "assume"
    /\ StsClientBuilt
    /\ Len(calls[t]) < MaxCalls
    /\ calls' = [calls EXCEPT ![t] = Logged(t, TRUE, nextCred, NoError)]
    /\ nextCred' = nextCred + 1
    /\ IF frame[t].stage = "probe"
       THEN \* the try block ends; control reaches the call at the end
            /\ frame' = [frame EXCEPT ![t].stage = "final"]
            /\ UNCHANGED <<pc, result>>
       ELSE Finish(t, "ok", Some(Response(nextCred)), NoError)
    /\ environ' = StsClientEnviron(environ)
    /\ UNCHANGED <<config, token, active, ctx, obs, issuances, stores, opsDone>>

\* (variant: when the retry fails, the error that started it is raised)
EndpointFailsSurfacing(t, e) ==
    /\ UNCHANGED docVars
    /\ UNCHANGED resolverVars
    /\ pc[t] = "assume"
    /\ StsClientBuilt
    /\ Len(calls[t]) < MaxCalls
    /\ calls' = [calls EXCEPT ![t] = Logged(t, FALSE, 0, e)]
    /\ IF frame[t].stage = "probe" /\ NarrowedDuration(e) # None
       THEN /\ frame' = [frame EXCEPT ![t] = EnterFrame(RetryAutoDuration, NarrowedDuration(e))]
            /\ UNCHANGED <<pc, result>>
       ELSE Finish(t, "err", None, IF calls[t] # <<>> THEN calls[t][1].err ELSE e)
    /\ environ' = StsClientEnviron(environ)
    /\ UNCHANGED <<config, token, active, ctx, obs, nextCred, issuances, stores, opsDone>>

\* sts_client.assume_role_with_saml(**sts_call_vars) raises e
EndpointFails(t, e) ==
    /\ UNCHANGED docVars
    /\ UNCHANGED resolverVars
    /\ pc[t] = "assume"
    /\ StsClientBuilt
    /\ Len(calls[t]) < MaxCalls
    /\ calls' = [calls EXCEPT ![t] = Logged(t, FALSE, 0, e)]
    /\ IF frame[t].stage = "probe" /\ NarrowedDuration(e) # None
       THEN \* return self.assume_role(..., duration=new_duration, auto_duration=False)
            /\ frame' = [frame EXCEPT ![t] = EnterFrame(RetryAutoDuration, NarrowedDuration(e))]
            /\ UNCHANGED <<pc, result>>
       ELSE Finish(t, "err", None, e)
    /\ environ' = StsClientEnviron(environ)
    /\ UNCHANGED <<config, token, active, ctx, obs, nextCred, issuances, stores, opsDone>>

\* the sts_client property raises ExpectedAmazonException before any call is made
StsClientRaises(t) ==
    /\ UNCHANGED docVars
    /\ UNCHANGED resolverVars
    /\ pc[t] = "assume"
    /\ ~StsClientBuilt
    /\ Finish(t, "err", None, ExpectedAmazonException)
    /\ environ' = StsClientEnviron(environ)
    /\ UNCHANGED <<config, token, active, ctx, calls, obs, nextCred, issuances,
                   stores, opsDone>>

-----------------------------------------------------------------------------
(* resolve_aws_aliases *)

\* A role ARN is given by its colon-delimited fields, so that
\* role.split(":") is the sequence itself.
RoleFoo == <<"arn", "aws", "iam", "", "111111111111", "role/Foo">>
RoleBar == <<"arn", "aws", "iam", "", "111111111111", "role/Bar">>
RoleDev == <<"arn", "aws", "iam", "", "222222222222", "role/Dev">>
RoleBad == <<"arn", "aws", "iam">>

\* the mappings passed as roles (keys in iteration order; the principal of
\* each role is only handed on to the endpoint)
RoleMaps ==
    { <<>>,
      <<RoleFoo>>,
      <<RoleFoo, RoleDev>>,
      <<RoleFoo, RoleBar>>,
      <<RoleBad, RoleDev>>,
      <<RoleFoo, RoleBar, RoleDev>> }

\* role.split(":")[4] raises IndexError when the ARN has fewer than five fields
HasAccount(role) == Len(role) >= 5

\* (variant: the key is the field before the account identifier)
AccountOfFourth(role) == role[4]

\* role.split(":")[4]
AccountOf(role) == role[5]

\* response["AccountAliases"][0] of the account the role belongs to
AliasOf(role) ==
    IF ~HasAccount(role) THEN "other"
    ELSE IF AccountOf(role) = "111111111111" THEN "prod" ELSE "dev"

\* what the network calls of one worker give: the alias, or an exception from
\* the credential exchange, from the alias listing, or from indexing an empty
\* alias list
Lookups == {"alias", "sts_error", "iam_error", "no_alias"}

\* aws_dict[k] = v
DictSet(d, k, v) == [x \in (DOMAIN d) \cup {k} |-> IF x = k THEN v ELSE d[x]]

NewWorker == [pc |-> "lookup", lookup |-> "none"]

WorkerOver(w) == w.pc \in {"done", "died"}

\* (variant: the workers are not awaited)
JoinReadyAtOnce(w) == TRUE

\* t.join() returns once thread t has terminated
JoinReady(w) == WorkerOver(w)

\* resolve_aws_aliases(roles) is called: threads = [], aws_id_alias = {}
StartResolve(t, rs) ==
    /\ UNCHANGED docVars
    /\ pc[t] = "idle"
    /\ opsDone < MaxOps
    /\ opsDone' = opsDone + 1
    /\ pc' = [pc EXCEPT ![t] = "spawn"]
    /\ ctx' = [ctx EXCEPT ![t] = [op |-> "resolve_aws_aliases", todo |-> <<>>,
                                 args |-> NoArgs]]
    /\ calls' = [calls EXCEPT ![t] = <<>>]
    /\ result' = [result EXCEPT ![t] = NoResult]
    /\ obs' = [obs EXCEPT ![t] = NoObs]
    /\ roles' = rs
    /\ workers' = <<>>
    /\ joined' = 0
    /\ aws_id_alias' = <<>>
    /\ UNCHANGED <<config, environ, token, active, frame, nextCred, issuances, stores>>

\* one iteration of the first loop: Thread(...), t.start(), threads.append(t)
Spawn(t) ==
    /\ UNCHANGED docVars
    /\ pc[t] = "spawn"
    /\ Len(workers) < Len(roles)
    /\ workers' = Append(workers, NewWorker)
    /\ UNCHANGED <<brokerVars, roles, joined, aws_id_alias>>

\* the first loop is over
SpawnDone(t) ==
    /\ UNCHANGED docVars
    /\ pc[t] = "spawn"
    /\ Len(workers) = Len(roles)
    /\ pc' = [pc EXCEPT ![t] = "join"]
    /\ UNCHANGED <<config, environ, token, active, ctx, frame, calls, result, obs,
                   nextCred, issuances, stores, opsDone, resolverVars>>

\* (variant: the credential a worker obtains is memoized as the broker's token)
WorkerLookupMemoizing(i, l) ==
    /\ UNCHANGED docVars
    /\ i \in DOMAIN workers
    /\ workers[i].pc = "lookup"
    /\ workers' = [workers EXCEPT ![i] =
                      [pc |-> IF l = "alias" THEN "write" ELSE "fallback", lookup |-> l]]
    /\ token' = IF l \in {"alias", "iam_error", "no_alias"}
                THEN Some(Response(nextCred)) ELSE token
    /\ UNCHANGED <<config, environ, active, pc, ctx, frame, calls, result, obs,
                   nextCred, issuances, stores, opsDone>>
    /\ UNCHANGED <<roles, joined, aws_id_alias>>

\* resolve_aws_alias, lines 160-180: the session, the anonymous credential
\* exchange and the alias listing of worker i
WorkerLookup(i, l) ==
    /\ UNCHANGED docVars
    /\ i \in DOMAIN workers
    /\ workers[i].pc = "lookup"
    /\ workers' = [workers EXCEPT ![i] =
                      [pc |-> IF l = "alias" THEN "write" ELSE "fallback", lookup |-> l]]
    /\ UNCHANGED <<brokerVars, roles, joined, aws_id_alias>>

\* resolve_aws_alias, line 181: aws_dict[role.split(":")[4]] = account_alias
WorkerWrite(i) ==
    /\ UNCHANGED docVars
    /\ i \in DOMAIN workers
    /\ workers[i].pc = "write"
    /\ IF HasAccount(roles[i])
       THEN /\ aws_id_alias' = DictSet(aws_id_alias, AccountOf(roles[i]), AliasOf(roles[i]))
            /\ workers' = [workers EXCEPT ![i].pc = "done"]
       ELSE \* IndexError, caught by the except clause
            /\ workers' = [workers EXCEPT ![i].pc = "fallback"]
            /\ UNCHANGED aws_id_alias
    /\ UNCHANGED <<brokerVars, roles, joined>>

\* resolve_aws_alias, lines 182-184: the except clause
WorkerFallback(i) ==
    /\ UNCHANGED docVars
    /\ i \in DOMAIN workers
    /\ workers[i].pc = "fallback"
    /\ IF HasAccount(roles[i])
       THEN /\ aws_id_alias' = DictSet(aws_id_alias, AccountOf(roles[i]), AccountOf(roles[i]))
            /\ workers' = [workers EXCEPT ![i].pc = "done"]
       ELSE \* IndexError inside the handler: the exception ends the thread
            /\ workers' = [workers EXCEPT ![i].pc = "died"]
            /\ UNCHANGED aws_id_alias
    /\ UNCHANGED <<brokerVars, roles, joined>>

\* one iteration of the second loop: t.join()
Join(t) ==
    /\ UNCHANGED docVars
    /\ pc[t] = "join"
    /\ joined < Len(workers)
    /\ JoinReady(workers[joined + 1])
    /\ joined' = joined + 1
    /\ UNCHANGED <<brokerVars, roles, workers, aws_id_alias>>

\* return aws_id_alias
ResolveReturn(t) ==
    /\ UNCHANGED docVars
    /\ pc[t] = "join"
    /\ joined = Len(workers)
    /\ pc' = [pc EXCEPT ![t] = "idle"]
    /\ result' = [result EXCEPT ![t] =
                    [status |-> "ok", res |-> Some(aws_id_alias), err |-> NoError]]
    /\ UNCHANGED <<config, environ, token, active, ctx, frame, calls, obs, nextCred,
                   issuances, stores, opsDone, resolverVars>>

-----------------------------------------------------------------------------
(* is_valid_saml_assertion and roles *)

\* A timestamp attribute as written in the document: the second it names, the
\* digits after the "." (None when it has no fraction) and whether it ends in "Z".
Stamp(sec, frac, z) == Some([sec |-> sec, frac |-> frac, z |-> z])

\* the values of NotBefore / NotOnOrAfter; None is a missing attribute
Stamps ==
    { None,
      Stamp(1, Some(<<0>>), TRUE),
      Stamp(1, Some(<<5>>), TRUE),
      Stamp(1, Some(<<5, 0, 0, 0, 0, 0>>), TRUE),
      Stamp(2, Some(<<0>>), TRUE),
      Stamp(1, None, TRUE),
      Stamp(2, Some(<<0>>), FALSE),
      Stamp(1, Some(<<1, 2, 3, 4, 5, 6, 7>>), TRUE) }

\* datetime.utcnow(): seconds and microseconds
Clocks == {<<0, 999999>>, <<1, 0>>, <<1, 500000>>, <<1, 999999>>, <<2, 0>>}

RECURSIVE Pow10(_)
Pow10(n) == IF n = 0 THEN 1 ELSE 10 * Pow10(n - 1)

\* datetime.strptime(s, "%Y-%m-%dT%H:%M:%S.%fZ"): Some(<<seconds, microseconds>>),
\* or None when it raises (s is None, has no fraction of 1 to 6 digits, or no "Z")
Strptime(s) ==
    IF s = None THEN None
    ELSE LET x == s[1]
         IN  IF x.frac = None \/ ~x.z THEN None
             ELSE LET ds == x.frac[1]
                  IN  IF Len(ds) < 1 \/ Len(ds) > 6 THEN None
                      ELSE Some(<<x.sec, ToInt(ds) * Pow10(6 - Len(ds))>>)

\* comparison of datetime values
DtLess(a, b) == a[1] < b[1] \/ (a[1] = b[1] /\ a[2] < b[2])
DtLessEq(a, b) == a = b \/ DtLess(a, b)

\* (variant: the lower bound is exclusive)
InWindowOpen(not_before, clock, not_on_or_after) ==
    DtLess(not_before, clock) /\ DtLess(clock, not_on_or_after)

\* "not_before <= now < not_on_or_after"
InWindow(not_before, clock, not_on_or_after) ==
    DtLessEq(not_before, clock) /\ DtLess(clock, not_on_or_after)

\* A text is a sequence of pieces: "," or a piece without a comma.
Comma == ","

RoleFooArn == "arn:aws:iam::111111111111:role/Foo"
RoleOddArn == "arn:aws:iam::111111111111:role/team"
ProviderBar == "arn:aws:iam::111111111111:saml-provider/Bar"
ProviderBaz == "arn:aws:iam::111111111111:saml-provider/Baz"
RoleGovArn == "arn:aws-us-gov:iam::333333333333:role/Gov"
ProviderGov == "arn:aws-us-gov:iam::333333333333:saml-provider/Gov"

\* the pieces that contain "arn:aws:iam:" or "arn:aws-us-gov:iam:"
MarkedPieces == {RoleFooArn, RoleOddArn, ProviderBar, ProviderBaz, RoleGovArn, ProviderGov}

\* the text nodes found under the role attribute
TextNodes ==
    { <<RoleFooArn, Comma, ProviderBar>>,
      <<RoleFooArn, Comma, ProviderBaz>>,
      <<ProviderBar, Comma, RoleFooArn>>,
      <<RoleGovArn, Comma, ProviderGov>>,
      <<"staff", Comma, ProviderBar>>,
      <<"urn:example:group", Comma, "staff">>,
      <<"staff">>,
      <<RoleFooArn>>,
      <<RoleOddArn, Comma, "a", Comma, ProviderBar>> }

\* a parsed document: its Conditions elements and the text nodes under the
\* attribute named https://aws.amazon.com/SAML/Attributes/Role, in document order
Doc(conds, texts) == Some([wellformed |-> TRUE, conditions |-> conds, texts |-> texts])

\* bytes that etree.fromstring rejects
BrokenDoc == Some([wellformed |-> FALSE, conditions |-> <<>>, texts |-> <<>>])

Cond(nb, noa) == [NotBefore |-> nb, NotOnOrAfter |-> noa]

SampleDoc ==
    Doc(<<Cond(Stamp(1, Some(<<0>>), TRUE), Stamp(2, Some(<<0>>), TRUE))>>,
        <<<<RoleFooArn, Comma, ProviderBar>>>>)

Documents ==
    {None, BrokenDoc}
    \cup {Doc(<<>>, <<x>>) : x \in TextNodes}
    \cup {Doc(<<Cond(nb, noa)>>, <<>>) : nb \in Stamps, noa \in Stamps}
    \cup {Doc(<<Cond(Stamp(2, Some(<<0>>), TRUE), Stamp(2, Some(<<0>>), TRUE)),
                Cond(Stamp(1, Some(<<0>>), TRUE), Stamp(2, Some(<<0>>), TRUE))>>, <<>>)}
    \cup {Doc(<<Cond(Stamp(1, Some(<<0>>), TRUE), Stamp(2, Some(<<0>>), TRUE))>>, <<x, y>>) :
             x \in TextNodes, y \in TextNodes}

\* the try block of is_valid_saml_assertion: "True", "False", or "raise"
WindowCheck(doc, clock) ==
    IF ~doc.wellformed THEN "raise"
    ELSE IF doc.conditions = <<>> THEN "raise"
    ELSE LET not_before == Strptime(doc.conditions[1].NotBefore)
             not_on_or_after == Strptime(doc.conditions[1].NotOnOrAfter)
         IN  IF not_before = None \/ not_on_or_after = None THEN "raise"
             ELSE IF InWindow(not_before[1], clock, not_on_or_after[1])
                  THEN "True" ELSE "False"

\* is_valid_saml_assertion(saml_xml)
IsValidSamlAssertion(xml, clock) ==
    IF xml = None THEN "False"
    ELSE LET r == WindowCheck(xml[1], clock)
         IN  IF r = "raise" THEN "False" ELSE r

\* "arn:aws:iam:" in x or "arn:aws-us-gov:iam:" in x
HasMarker(x) == \E i \in DOMAIN x : x[i] \in MarkedPieces

FirstComma(x) ==
    IF \E i \in DOMAIN x : x[i] = Comma
    THEN CHOOSE i \in DOMAIN x : x[i] = Comma /\ \A j \in 1..(i - 1) : x[j] # Comma
    ELSE 0

\* (variant: x.split(",", 1))
SplitOnce(x) ==
    IF FirstComma(x) = 0 THEN <<x>>
    ELSE <<SubSeq(x, 1, FirstComma(x) - 1), SubSeq(x, FirstComma(x) + 1, Len(x))>>

\* x.split(",")
RECURSIVE Split(_)
Split(x) ==
    IF FirstComma(x) = 0 THEN <<x>>
    ELSE <<SubSeq(x, 1, FirstComma(x) - 1)>> \o Split(SubSeq(x, FirstComma(x) + 1, Len(x)))

Raised(e) == [status |-> "raise", err |-> e, map |-> <<>>]
Gave(m) == [status |-> "ok", err |-> "", map |-> m]
NotAsked == [status |-> "none", err |-> "", map |-> <<>>]

\* the loop of the roles property over the text nodes from the i-th on
RECURSIVE RolesLoop(_, _, _)
RolesLoop(texts, i, acc) ==
    IF i > Len(texts) THEN Gave(acc)
    ELSE IF HasMarker(texts[i])
         THEN LET res == Split(texts[i])
              IN  IF Len(res) < 2 THEN Raised("IndexError")
                  ELSE RolesLoop(texts, i + 1, DictSet(acc, res[1], res[2]))
         ELSE RolesLoop(texts, i + 1, acc)

\* the roles property
RolesOf(xml) ==
    IF xml = None THEN Raised("AssertionError")
    ELSE IF ~xml[1].wellformed THEN Raised("XMLSyntaxError")
    ELSE RolesLoop(xml[1].texts, 1, <<>>)

InitDocs(docs) ==
    /\ saml_xml \in docs
    /\ now \in Clocks
    /\ valid = "none"
    /\ extracted = NotAsked

\* Amazon.is_valid_saml_assertion(saml_xml) is called
Validate ==
    /\ valid = "none"
    /\ valid' = IsValidSamlAssertion(saml_xml, now)
    /\ UNCHANGED <<brokerVars, resolverVars, saml_xml, now, extracted>>

\* the roles property is read
ExtractRoles ==
    /\ extracted = NotAsked
    /\ extracted' = RolesOf(saml_xml)
    /\ UNCHANGED <<brokerVars, resolverVars, saml_xml, now, valid>>

-----------------------------------------------------------------------------

Init == InitBroker({1}) /\ InitDocs({SampleDoc}) /\ now = <<1, 0>>

Next ==
    \/ \E t \in active, op \in AccessOps : StartAccess(t, op)
    \/ \E t \in active : TokenGet(t)
    \/ \E t \in active : TokenStore(t)
    \/ \E t \in active : TokenReturn(t)
    \/ \E t \in active, d \in Durations, a \in BOOLEAN : StartAssumeRole(t, d, a)
    \/ \E t \in active : EndpointSucceeds(t)
    \/ \E t \in active, e \in Errors : EndpointFails(t, e)
    \/ \E t \in active : StsClientRaises(t)
    \/ \E t \in active, rs \in RoleMaps : StartResolve(t, rs)
    \/ \E t \in active : Spawn(t)
    \/ \E t \in active : SpawnDone(t)
    \/ \E i \in DOMAIN workers, l \in Lookups : WorkerLookup(i, l)
    \/ \E i \in DOMAIN workers : WorkerWrite(i)
    \/ \E i \in DOMAIN workers : WorkerFallback(i)
    \/ \E t \in active : Join(t)
    \/ \E t \in active : ResolveReturn(t)

Spec == Init /\ [][Next]_vars

\* The resolver's threads are scheduled and their network calls come back:
\* whichever step of resolve_aws_aliases stays possible is eventually taken.
ResolverStep ==
    \/ \E t \in active : Spawn(t)
    \/ \E t \in active : SpawnDone(t)
    \/ \E i \in DOMAIN workers, l \in Lookups : WorkerLookup(i, l)
    \/ \E i \in DOMAIN workers : WorkerWrite(i)
    \/ \E i \in DOMAIN workers : WorkerFallback(i)
    \/ \E t \in active : Join(t)
    \/ \E t \in active : ResolveReturn(t)

\* resolve_aws_aliases alone: the broker's other operations run on the calling
\* thread before or after it and leave the resolver's locals alone
NextResolver ==
    \/ \E t \in active, rs \in RoleMaps : StartResolve(t, rs)
    \/ ResolverStep

FairSpec == Init /\ [][NextResolver]_vars /\ WF_vars(ResolverStep)

\* Two threads read the token of one broker instance.
RaceErrors ==
    { Err("ClientError", "ValidationError", TRUE, TRUE, <<2, 8, 8, 0, 0>>),
      Err("ClientError", "AccessDenied", TRUE, FALSE, <<>>) }

InitRace == InitBroker({1, 2}) /\ InitDocs({SampleDoc}) /\ now = <<1, 0>>

NextRace ==
    \/ \E t \in active, op \in Accessors : StartAccess(t, op)
    \/ \E t \in active : TokenGet(t)
    \/ \E t \in active : TokenStore(t)
    \/ \E t \in active : TokenReturn(t)
    \/ \E t \in active : EndpointSucceeds(t)
    \/ \E t \in active, e \in RaceErrors : EndpointFails(t, e)
    \/ \E t \in active : StsClientRaises(t)

SpecRace == InitRace /\ [][NextRace]_vars

\* The two functions of the document, on a broker that does nothing else.
InitDoc ==
    /\ InitBroker({1})
    /\ config = [token_cache |-> None, auto_duration |-> TRUE, duration |-> None]
    /\ environ = [profile_found |-> TRUE, AWS_PROFILE |-> None]
    /\ InitDocs(Documents)

NextDoc ==
    \/ Validate
    \/ ExtractRoles

SpecDoc == InitDoc /\ [][NextDoc]_vars

-----------------------------------------------------------------------------
(* Properties of assume_role *)

\* a validation error whose message reads "... less than or equal to N"
BoundMessage(e) ==
    e.cls = "ClientError" /\ e.code = "ValidationError" /\ e.hasMsg /\ e.phrase
        /\ e.digits # <<>>

\* the invocation of assume_role that thread t made is over
InvocationOver(t) == pc[t] # "assume" /\ result[t].status # "none"

\* C1: every invocation of assume_role makes at most two calls to the token
\* endpoint; a call after the first is never a negotiation probe, and when the
\* second call fails, whatever its error, the invocation ends in failure
\* without a third call.
C1_AtMostTwoCalls ==
    \A t \in Threads :
        /\ Len(calls[t]) <= 2
        /\ \A i \in 2..Len(calls[t]) : calls[t][i].stage = "final"
        /\ (Len(calls[t]) = 2 /\ ~calls[t][2].ok)
               => (pc[t] = "idle" /\ result[t].status = "err"
                   /\ result[t].err = calls[t][2].err)

\* the narrowed retry failed with a validation error that itself names a bound
C1_Witness ==
    \E t \in Threads :
        /\ Len(calls[t]) = 2
        /\ ~calls[t][1].ok /\ BoundMessage(calls[t][1].err)
        /\ ~calls[t][2].ok /\ BoundMessage(calls[t][2].err)
        /\ Len(calls[t][2].err.digits) >= 3
        /\ pc[t] = "idle" /\ result[t].status = "err"

\* C2: with adaptive negotiation the first call asks for config.max_duration;
\* if it is rejected with a validation error whose message matches
\* "Member must have value less than or equal to N", then for every extracted
\* N exactly one more call is made, it asks for DurationSeconds = N, and when
\* it succeeds assume_role returns its credential.
C2_NarrowedRetryAsksN ==
    \A t \in Threads :
        (Len(calls[t]) >= 1 /\ calls[t][1].stage = "probe")
            => /\ calls[t][1].req = Some(MaxDuration)
               /\ (/\ ~calls[t][1].ok
                   /\ BoundMessage(calls[t][1].err)
                   /\ Len(calls[t][1].err.digits) >= 3
                   /\ InvocationOver(t))
                      => /\ Len(calls[t]) = 2
                         /\ calls[t][2].req =
                               Some(ToInt(SubSeq(calls[t][1].err.digits, 1,
                                                 Min(5, Len(calls[t][1].err.digits)))))
                         /\ calls[t][2].ok =>
                               /\ result[t].status = "ok"
                               /\ ctx[t].op = "assume_role" =>
                                     result[t].res = Some(Response(calls[t][2].id))

-----------------------------------------------------------------------------
(* Properties of the memoized token *)

\* config.token_cache is a non-empty mapping
CacheGiven == config.token_cache # None /\ config.token_cache # Some(<<>>)

\* thread t has just got a value from an accessor
Reading(t) == obs'[t] # obs[t] /\ obs'[t].acc # "none"

\* C4 as stated: over the whole life of a broker used by one thread, at most
\* one issuance sequence is triggered, whatever the endpoint answers.
C4_AtMostOneIssuance == issuances <= 1

\* C4 as amended: an issuance sequence is triggered only while the token is
\* missing, the token is assigned at most once, and every accessor read made
\* once it is set returns the memoized token.
C4_OneSuccessfulIssuance ==
    [][/\ issuances' # issuances => (token = None /\ stores = 0)
       /\ stores' <= 1
       /\ token # None => \A t \in Threads : Reading(t) => obs'[t].tok = token
      ]_vars

\* a first issuance failed, a second one succeeded and its token was read back
C4_Witness ==
    /\ issuances = 2
    /\ stores = 1
    /\ pc[1] = "idle"
    /\ obs[1].acc = "session_token"
    /\ obs[1].tok = token

\* C5: two threads reading the token of one broker never both run an issuance,
\* and the tokens they get are the same.
C5_SingleIssuer ==
    /\ Cardinality({t \in Threads : pc[t] \in {"assume", "store"}}) <= 1
    /\ (obs[1].acc # "none" /\ obs[2].acc # "none") => obs[1].tok = obs[2].tok

\* C6: once self.__token is set its value never changes, and every accessor
\* read returns the field of that token.
C6_TokenImmutable ==
    [][token # None =>
          /\ token' = token
          /\ \A t \in Threads : Reading(t) =>
                FieldOf(obs'[t].tok[1], obs'[t].acc) = FieldOf(token[1], obs'[t].acc)
      ]_vars

\* an issued token was read back by a later operation
C6_Witness ==
    /\ stores = 1
    /\ issuances = 1
    /\ opsDone = 2
    /\ ctx[1].op = "expiration"
    /\ obs[1].acc = "expiration"
    /\ obs[1].tok = token
    /\ pc[1] = "idle"

\* C7: a broker built with a non-empty token_cache holds the cached credential
\* from construction on; reading token, an accessor or a print_* formatter never
\* calls the endpoint and returns the cached fields.
C7_SeededNeverCalls ==
    CacheGiven =>
        /\ token = Some([Credentials |-> config.token_cache[1]])
        /\ issuances = 0
        /\ stores = 0
        /\ \A t \in Threads :
              /\ ctx[t].op \in AccessOps => (calls[t] = <<>> /\ pc[t] \notin {"assume", "store"})
              /\ obs[t].acc # "none" =>
                    obs[t].tok = Some([Credentials |-> config.token_cache[1]])

\* print_credential_process ran to its end on a seeded broker
C7_Witness ==
    /\ CacheGiven
    /\ ctx[1].op = "print_credential_process"
    /\ pc[1] = "idle"
    /\ obs[1].acc = "expiration"
    /\ FieldOf(obs[1].tok[1], "expiration") = config.token_cache[1].Expiration

-----------------------------------------------------------------------------
(* Properties of resolve_aws_aliases *)

\* resolve_aws_aliases has returned to thread t
Returned(t) == ctx[t].op = "resolve_aws_aliases" /\ pc[t] = "idle"

\* the map it returned
ReturnedMap(t) == result[t].res[1]

Resolving == \E t \in Threads : pc[t] \in {"spawn", "join"}

\* C8: the alias returned for a role whose own lookup succeeded is the alias
\* that lookup obtained, whatever happened to the other roles.
C8_FailureIsolated ==
    \A t \in Threads : Returned(t) =>
        \A i \in DOMAIN roles :
            (workers[i].lookup = "alias" /\ HasAccount(roles[i]))
                => /\ AccountOf(roles[i]) \in DOMAIN ReturnedMap(t)
                   /\ ReturnedMap(t)[AccountOf(roles[i])] = AliasOf(roles[i])

\* C9: the returned map has exactly one entry per input role, and when all
\* lookups but one succeed the failing role's entry is its account identifier.
C9_OneEntryPerRole ==
    \A t \in Threads : Returned(t) =>
        /\ Cardinality(DOMAIN ReturnedMap(t)) = Len(roles)
        /\ \A i \in DOMAIN roles :
              (/\ workers[i].lookup # "alias"
               /\ \A j \in DOMAIN roles \ {i} : workers[j].lookup = "alias")
                  => /\ HasAccount(roles[i])
                     /\ AccountOf(roles[i]) \in DOMAIN ReturnedMap(t)
                     /\ ReturnedMap(t)[AccountOf(roles[i])] = AccountOf(roles[i])

\* C10: resolve_aws_aliases returns only when every worker it started has
\* terminated, the map it returns holds all their writes, and if the workers'
\* network calls come back the call does return.
C10_Barrier ==
    /\ [](\A t \in Threads : Returned(t) =>
              /\ Len(workers) = Len(roles)
              /\ \A i \in DOMAIN workers : WorkerOver(workers[i])
              /\ ReturnedMap(t) = aws_id_alias)
    /\ (Resolving ~> (\E t \in Threads : Returned(t)))

\* the call returned after three workers, one of them through the fallback
C10_Witness ==
    /\ Returned(1)
    /\ Len(roles) = 3
    /\ workers[3].lookup = "iam_error"
    /\ \A i \in DOMAIN workers : workers[i].pc = "done"

\* C11: whatever step of a role's resolution fails, the worker ends normally
\* with the fallback entry of its role recorded; no exception leaves the worker.
C11_FailureAbsorbed ==
    \A i \in DOMAIN workers :
        /\ workers[i].pc # "died"
        /\ (workers[i].pc = "done" /\ workers[i].lookup # "alias")
               => /\ HasAccount(roles[i])
                  /\ AccountOf(roles[i]) \in DOMAIN aws_id_alias


\* C18: a step of resolve_aws_aliases, from its call to its return, leaves the
\* broker's token as it was and counts as neither an issuance nor a store of
\* the broker's credential; what it returns is the alias map.
C18_ResolveLeavesToken ==
    [][(\E t \in Threads : pc[t] \in {"spawn", "join"} \/ pc'[t] \in {"spawn", "join"}) =>
          /\ token' = token
          /\ issuances' = issuances
          /\ stores' = stores
          /\ nextCred' = nextCred
          /\ \A t \in Threads : calls'[t] = <<>>
          /\ \A t \in Threads : Returned(t)' => ReturnedMap(t)' = aws_id_alias
      ]_vars

\* a broker whose token was issued keeps it through a resolution that obtained
\* an alias
C18_Witness ==
    /\ Returned(1)
    /\ stores = 1
    /\ token = Some(Response(1))
    /\ \E i \in DOMAIN workers : workers[i].lookup = "alias" /\ workers[i].pc = "done"

\* C20: every key of the alias map is the 5th colon-delimited field of an input
\* role, every value is the alias listed for a role of that account or the key
\* itself; while the call runs no entry is removed, and an entry changes only
\* when a worker writes under the account identifier of its own role.
C20_MapWellFormed ==
    /\ [](\A k \in DOMAIN aws_id_alias :
              \E i \in DOMAIN workers :
                  /\ Len(roles[i]) >= 5
                  /\ roles[i][5] = k
                  /\ \/ aws_id_alias[k] = k
                     \/ workers[i].lookup = "alias" /\ aws_id_alias[k] = AliasOf(roles[i]))
    /\ [][Resolving =>
            /\ DOMAIN aws_id_alias \subseteq DOMAIN aws_id_alias'
            /\ \A k \in DOMAIN aws_id_alias' :
                   (k \notin DOMAIN aws_id_alias \/ aws_id_alias'[k] # aws_id_alias[k]) =>
                       \E i \in DOMAIN workers :
                           /\ workers[i].pc # "done" /\ workers'[i].pc = "done"
                           /\ Len(roles[i]) >= 5
                           /\ roles[i][5] = k
         ]_vars

\* two accounts in the map while the call still runs: one by its alias, one
\* by the fallback
C20_Witness ==
    /\ Resolving
    /\ Len(roles) = 3
    /\ DOMAIN aws_id_alias = {"111111111111", "222222222222"}
    /\ aws_id_alias["111111111111"] = "prod"
    /\ aws_id_alias["222222222222"] = "222222222222"

-----------------------------------------------------------------------------
(* Further properties of assume_role and token *)

\* adaptive negotiation is disabled for the invocation thread t made
Disabled(t) == ~config.auto_duration \/ ~ctx[t].args.auto

\* thread t went through assume_role, with a client to call the endpoint
Invoked(t) ==
    /\ InvocationOver(t)
    /\ environ.profile_found
    /\ ctx[t].op = "assume_role" \/ (ctx[t].op \in AccessOps /\ calls[t] # <<>>)

\* C15: with negotiation disabled, assume_role makes exactly one endpoint
\* call, carrying the explicit duration when one is given and no
\* DurationSeconds otherwise; its credential is returned, or its error
\* propagates without a retry.
C15_SingleCallWhenDisabled ==
    \A t \in Threads : (Invoked(t) /\ Disabled(t)) =>
        /\ Len(calls[t]) = 1
        /\ calls[t][1].req = ctx[t].args.duration
        /\ calls[t][1].ok => /\ result[t].status = "ok"
                             /\ result[t].res = Some(Response(calls[t][1].id))
        /\ ~calls[t][1].ok => /\ result[t].status = "err"
                              /\ result[t].err = calls[t][1].err

\* the first call of thread t's invocation was a probe that failed with the
\* narrowing validation error
FirstCallNarrowed(t) ==
    /\ calls[t] # <<>>
    /\ calls[t][1].stage = "probe"
    /\ ~calls[t][1].ok
    /\ BoundMessage(calls[t][1].err)
    /\ Len(calls[t][1].err.digits) >= 3

\* C16: when the first endpoint call fails with the narrowing validation
\* error, the outcome of assume_role is the outcome of the second call alone:
\* its credential, or its error, never the error of the first call.
C16_NarrowingNotSurfaced ==
    \A t \in Threads : (InvocationOver(t) /\ FirstCallNarrowed(t)) =>
        /\ Len(calls[t]) = 2
        /\ calls[t][2].ok => /\ result[t].status = "ok"
                             /\ result[t].res = Some(Response(calls[t][2].id))
        /\ ~calls[t][2].ok => /\ result[t].status = "err"
                              /\ result[t].err = calls[t][2].err

\* a direct call whose narrowed retry failed with a different error
C16_Witness ==
    /\ InvocationOver(1) /\ FirstCallNarrowed(1)
    /\ ctx[1].op = "assume_role"
    /\ Len(calls[1]) = 2
    /\ ~calls[1][2].ok
    /\ calls[1][2].err # calls[1][1].err
    /\ result[1].err = calls[1][2].err

\* thread t's issuance, triggered by an accessor, ends in an error
IssuanceFails(t) ==
    /\ ctx[t].op \in AccessOps
    /\ pc[t] = "assume"
    /\ result'[t].status = "err"

\* C19: when the issuance triggered by an accessor ends in an error, the error
\* reaches the accessor's caller and the token stays unset; the token is set
\* only by storing the credential of a successful last call.
C19_FailedIssuanceLeavesNoToken ==
    [][/\ \A t \in Threads : IssuanceFails(t) =>
              /\ pc'[t] = "idle"
              /\ token = None /\ token' = None
              /\ stores' = stores
              /\ obs'[t] = obs[t]
              /\ calls'[t] # <<>> => result'[t].err = calls'[t][Len(calls'[t])].err
       /\ token' # token =>
              \E t \in Threads :
                  /\ pc[t] = "store"
                  /\ calls[t] # <<>>
                  /\ calls[t][Len(calls[t])].ok
                  /\ token' = Some(Response(calls[t][Len(calls[t])].id))
      ]_vars

\* an accessor's caller got the error of a failed narrowed retry, and the
\* token is still unset
C19_Witness ==
    /\ ctx[1].op \in AccessOps
    /\ pc[1] = "idle"
    /\ result[1].status = "err"
    /\ FirstCallNarrowed(1)
    /\ Len(calls[1]) = 2
    /\ token = None
    /\ issuances = 1

-----------------------------------------------------------------------------
(* Properties of sts_client *)

\* C12: every access to sts_client, whether it returns a client or raises,
\* leaves AWS_PROFILE as it found it.
C12_ProfileRestored == [][environ'.AWS_PROFILE = environ.AWS_PROFILE]_vars

-----------------------------------------------------------------------------
(* Properties of is_valid_saml_assertion and roles *)

\* a timestamp of the form YYYY-MM-DDTHH:MM:SS.ffffffZ
WellFormedStamp(a) ==
    a # None /\ a[1].z /\ a[1].frac # None
        /\ Len(a[1].frac[1]) >= 1 /\ Len(a[1].frac[1]) <= 6

\* the document parses and its Conditions element (the first one, as
\* conditions[0] reads it) carries two well-formed bounds
HasWindow ==
    /\ saml_xml # None
    /\ saml_xml[1].wellformed
    /\ saml_xml[1].conditions # <<>>
    /\ WellFormedStamp(saml_xml[1].conditions[1].NotBefore)
    /\ WellFormedStamp(saml_xml[1].conditions[1].NotOnOrAfter)

LowerBound == Strptime(saml_xml[1].conditions[1].NotBefore)[1]
UpperBound == Strptime(saml_xml[1].conditions[1].NotOnOrAfter)[1]

\* C13: is_valid_saml_assertion never raises, and it returns True exactly when
\* the document parses, has a Conditions element with two well-formed bounds and
\* not_before <= now < not_on_or_after.
C13_ValidIffInWindow ==
    valid # "none" =>
        /\ valid \in {"True", "False"}
        /\ valid = "True" <=>
              (HasWindow /\ DtLessEq(LowerBound, now) /\ DtLess(now, UpperBound))

\* the clock reads exactly NotBefore and the assertion is accepted
C13_Witness ==
    /\ valid = "True"
    /\ HasWindow
    /\ LowerBound = now

\* the pieces before the first comma, after it, and between the first two commas
FirstField(x) == IF FirstComma(x) = 0 THEN x ELSE SubSeq(x, 1, FirstComma(x) - 1)
Remainder(x) == SubSeq(x, FirstComma(x) + 1, Len(x))
SecondField(x) == FirstField(Remainder(x))

\* the text nodes recognized as bindings
Bindings ==
    IF saml_xml = None THEN {}
    ELSE {i \in DOMAIN saml_xml[1].texts : HasMarker(saml_xml[1].texts[i])}

TextAt(i) == saml_xml[1].texts[i]

\* C14: for every document that parses, roles returns a mapping without
\* raising, whatever its text nodes contain, and the empty mapping when the
\* document has no role attribute.
C14_RaisesOnlyOnParseError ==
    (extracted.status # "none" /\ saml_xml # None /\ saml_xml[1].wellformed)
        => /\ extracted.status = "ok"
           /\ saml_xml[1].texts = <<>> => extracted.map = <<>>

====
